---- MODULE Spec2Model ----
(***************************************************************************)
(* Histograma de edades: los dos ejecutables del repositorio.              *)
(*   estrategia = "mapa"    : src/app/main.cpp  (cola lock-free + mapa)    *)
(*   estrategia = "arreglo" : src/app/Edad.h    (tasks + arreglo atomico)  *)
(* y la biblioteca edad:: de src/unnamed/part_000.                         *)
(***************************************************************************)
EXTENDS Integers, Sequences, FiniteSets, TLC

(* ------------------------------ cotas ---------------------------------- *)
\* numero maximo de lineas del archivo de entrada
MaxLineas == 2
\* numero maximo de hilos de la region paralela (OMP_NUM_THREADS)
MaxHilos == 2
\* numero maximo de cambios de dia del reloj del sistema durante la corrida
MaxTicks == 1
\* nodos reservados por el constructor de la cola (131072u en el programa,
\* reducido aqui para que la reserva se agote)
capacidad == 1

(* ------------------------------ textos --------------------------------- *)
\* Una linea es una secuencia de caracteres (cadenas de largo 1).
Digitos == {"0", "1", "2", "3", "4", "5", "6", "7", "8", "9"}

ValorDigito(c) ==
    CASE c = "0" -> 0 [] c = "1" -> 1 [] c = "2" -> 2 [] c = "3" -> 3
      [] c = "4" -> 4 [] c = "5" -> 5 [] c = "6" -> 6 [] c = "7" -> 7
      [] c = "8" -> 8 [] c = "9" -> 9

Fecha(a1, a2, a3, a4, m1, m2, d1, d2) ==
    <<a1, a2, a3, a4, "-", m1, m2, "-", d1, d2>>

L_vacia == <<>>
L_no_fecha == <<"n", "o", "t", "-", "a", "-", "d", "a", "t", "e">>
L_2004_11_01 == Fecha("2", "0", "0", "4", "1", "1", "0", "1")
L_2024_11_01 == Fecha("2", "0", "2", "4", "1", "1", "0", "1")
L_2024_11_02 == Fecha("2", "0", "2", "4", "1", "1", "0", "2")
L_1893_11_02 == Fecha("1", "8", "9", "3", "1", "1", "0", "2")
L_1893_11_01 == Fecha("1", "8", "9", "3", "1", "1", "0", "1")

\* lineas con las que se arman los archivos de entrada
Catalogo ==
    {L_vacia, L_no_fecha, L_2004_11_01, L_2024_11_01, L_2024_11_02,
     L_1893_11_02, L_1893_11_01}

\* dias sucesivos que puede marcar el reloj local (anio, mes, dia)
Calendario == << <<2024, 11, 1>>, <<2024, 11, 2>>, <<2024, 11, 3>> >>

(* --------------------------- biblioteca edad --------------------------- *)
\* division entera de C++ (trunca hacia cero)
DivTrunc(a, b) == IF a >= 0 THEN a \div b ELSE -((-a) \div b)

\* texto.substr(pos, n)
substr(texto, pos, n) == SubSeq(texto, pos + 1, pos + n)

RECURSIVE SaltaBlancos(_)
SaltaBlancos(s) ==
    IF s # <<>> /\ Head(s) = " " THEN SaltaBlancos(Tail(s)) ELSE s

RECURSIVE LeeDigitos(_, _)
LeeDigitos(s, acc) ==
    IF s # <<>> /\ Head(s) \in Digitos
    THEN LeeDigitos(Tail(s), 10 * acc + ValorDigito(Head(s)))
    ELSE acc

\* std::stoi: blancos iniciales, signo opcional, prefijo maximo de digitos;
\* sin digitos lanza std::invalid_argument
stoi(s) ==
    LET s1 == SaltaBlancos(s)
        neg == s1 # <<>> /\ Head(s1) = "-"
        s2 == IF s1 # <<>> /\ Head(s1) \in {"-", "+"} THEN Tail(s1) ELSE s1
        hay == s2 # <<>> /\ Head(s2) \in Digitos
        v == LeeDigitos(s2, 0)
    IN [lanza |-> ~hay, val |-> IF neg THEN -v ELSE v]

\* anio tras "anio -= mes <= 2" (mes es unsigned: un mes negativo de stoi
\* llega como 2^32 + mes y no es <= 2)
anio_marzo(anio, mes) == anio - (IF mes \in 0 .. 2 THEN 1 ELSE 0)

\* (153 * (mes + (mes > 2 ? -3 : 9)) + 2) / 5 en aritmetica unsigned de 32
\* bits; para mes < 0 el operando es 2^32 + mes y 2^32 = 5 * 858993459 + 1
dias_hasta_mes(mes) ==
    IF mes >= 0
    THEN (153 * (mes + (IF mes > 2 THEN -3 ELSE 9)) + 2) \div 5
    ELSE 858993459 + (153 * (mes - 3) + 3) \div 5

\* mutante: la suma olvida la regla de los siglos (- anio_era / 100)
dias_era_sin_siglos(anio, mes, dia) ==
    LET a == anio_marzo(anio, mes)
        era == DivTrunc(IF a >= 0 THEN a ELSE a - 399, 400)
        anio_era == a - era * 400
        dia_anio == dias_hasta_mes(mes) + dia - 1
    IN anio_era * 365 + anio_era \div 4 + dia_anio

\* suma sin signo de 32 bits de fecha_a_dias antes de la conversion a
\* long long, como entero matematico; si es negativa (mes 3, dia 0,
\* anio_era 0 da -1) el valor unsigned es 2^32 + dias_era
dias_era(anio, mes, dia) ==
    LET a == anio_marzo(anio, mes)
        era == DivTrunc(IF a >= 0 THEN a ELSE a - 399, 400)
        anio_era == a - era * 400
        dia_anio == dias_hasta_mes(mes) + dia - 1
    IN anio_era * 365 + anio_era \div 4 - anio_era \div 100 + dia_anio

\* la suma unsigned de fecha_a_dias dio la vuelta: el valor que devuelve
\* edad::fecha_a_dias es fecha_a_dias(anio, mes, dia) + 2^32
desborde(anio, mes, dia) == dias_era(anio, mes, dia) < 0

\* mutante: la era se calcula con el anio sin el ajuste "anio -= mes <= 2"
fecha_a_dias_era_sin_ajuste(anio, mes, dia) ==
    LET era == DivTrunc(IF anio >= 0 THEN anio ELSE anio - 399, 400)
    IN era * 146097 + dias_era(anio, mes, dia) - 719468

\* edad::fecha_a_dias (sin las vueltas de 2^32 que cuenta desborde)
fecha_a_dias(anio, mes, dia) ==
    LET a == anio_marzo(anio, mes)
        era == DivTrunc(IF a >= 0 THEN a ELSE a - 399, 400)
    IN era * 146097 + dias_era(anio, mes, dia) - 719468

\* mutante: parseo que ademas rechaza un mes fuera de 1..12 o un dia fuera
\* de 1..31
parsear_fecha_iso_valida_rango(texto) ==
    IF Len(texto) # 10 \/ texto[5] # "-" \/ texto[8] # "-"
    THEN [lanza |-> TRUE, anio |-> 0, mes |-> 0, dia |-> 0]
    ELSE LET a == stoi(substr(texto, 0, 4))
             m == stoi(substr(texto, 5, 2))
             d == stoi(substr(texto, 8, 2))
         IN [lanza |-> a.lanza \/ m.lanza \/ d.lanza
                         \/ m.val \notin 1 .. 12 \/ d.val \notin 1 .. 31,
             anio |-> a.val, mes |-> m.val, dia |-> d.val]

\* edad::parsear_fecha_iso
parsear_fecha_iso(texto) ==
    IF Len(texto) # 10 \/ texto[5] # "-" \/ texto[8] # "-"
    THEN [lanza |-> TRUE, anio |-> 0, mes |-> 0, dia |-> 0]
    ELSE LET a == stoi(substr(texto, 0, 4))
             m == stoi(substr(texto, 5, 2))
             d == stoi(substr(texto, 8, 2))
         IN [lanza |-> a.lanza \/ m.lanza \/ d.lanza,
             anio |-> a.val, mes |-> m.val, dia |-> d.val]

\* mutante: la resta se hace al reves (nacimiento menos hoy)
calcular_resta_invertida(fecha_nacimiento, hoy) ==
    LET f == parsear_fecha_iso(fecha_nacimiento)
    IN IF f.lanza
       THEN [lanza |-> TRUE, dif |-> 0, vueltas |-> 0]
       ELSE [lanza |-> FALSE,
             dif |-> fecha_a_dias(f.anio, f.mes, f.dia)
                        - fecha_a_dias(hoy[1], hoy[2], hoy[3]),
             vueltas |-> IF desborde(f.anio, f.mes, f.dia) THEN 1 ELSE 0]

\* edad::calcular con el reloj marcando hoy = <<anio, mes, dia>>.
\* La edad decimal es (dif - vueltas * 2^32) / 365.2425; se devuelven dif y
\* vueltas (1 si la suma unsigned de la fecha de nacimiento dio la vuelta).
calcular(fecha_nacimiento, hoy) ==
    LET f == parsear_fecha_iso(fecha_nacimiento)
    IN IF f.lanza
       THEN [lanza |-> TRUE, dif |-> 0, vueltas |-> 0]
       ELSE [lanza |-> FALSE,
             dif |-> fecha_a_dias(hoy[1], hoy[2], hoy[3])
                        - fecha_a_dias(f.anio, f.mes, f.dia),
             vueltas |-> IF desborde(f.anio, f.mes, f.dia) THEN 1 ELSE 0]

\* static_cast<int>(e) para e = dif / 365.2425 >= 0  (365.2425 = 146097/400)
truncar(dif) == (dif * 400) \div 146097

\* resultado de edad::calcular para cada linea del catalogo y cada dia del
\* calendario (tabla de los valores de calcular, evaluada una sola vez)
tabla_calcular ==
    [l \in Catalogo |->
        [d \in DOMAIN Calendario |-> calcular(l, Calendario[d])]]


(* --------------------- cola, mapa y arreglo ---------------------------- *)
\* mutante: push que encola el puntero dos veces
push_doble(q, n, p) ==
    [ok |-> TRUE,
     cola |-> Append(Append(q, p), p),
     nodos |-> IF Len(q) + 2 > n THEN Len(q) + 2 ELSE n]

\* boost::lockfree::queue<std::string*>::push.  La cola se declara sin
\* fixed_sized<true>: agotados los nodos reservados, push pide otro nodo al
\* sistema y encola igual; no informa "cola llena".
push(q, n, p) ==
    [ok |-> TRUE,
     cola |-> Append(q, p),
     nodos |-> IF Len(q) + 1 > n THEN Len(q) + 1 ELSE n]

\* mutante: pop que entrega el primer elemento sin retirarlo de la cola
pop_sin_retirar(q) ==
    IF q = <<>>
    THEN [ok |-> FALSE, val |-> 0, cola |-> q]
    ELSE [ok |-> TRUE, val |-> Head(q), cola |-> q]

\* boost::lockfree::queue::pop: saca el elemento mas antiguo, o falla
pop(q) ==
    IF q = <<>>
    THEN [ok |-> FALSE, val |-> 0, cola |-> q]
    ELSE [ok |-> TRUE, val |-> Head(q), cola |-> Tail(q)]

\* boost::lockfree::queue::empty
empty(q) == q = <<>>

\* mutante: try_emplace que pisa el valor existente (insert_or_assign)
try_emplace_pisa(m, k, v) ==
    IF k \in DOMAIN m THEN [m EXCEPT ![k] = v] ELSE m @@ (k :> v)

\* mutante: try_emplace que crea la entrada con un valor inicial de mas
try_emplace_con_uno(m, k, v) ==
    IF k \in DOMAIN m THEN m ELSE m @@ (k :> v + 1)

\* concurrent_flat_map::try_emplace(k, v): inserta solo si k no existe
try_emplace(m, k, v) == IF k \in DOMAIN m THEN m ELSE m @@ (k :> v)

\* mutante: visit que escribe 1 en vez de sumar 1 (incremento perdido)
visit_pierde_incremento(m, k) ==
    IF k \in DOMAIN m THEN [m EXCEPT ![k] = 1] ELSE m

\* concurrent_flat_map::visit(k, ++par.second): no hace nada si k no existe
visit(m, k) == IF k \in DOMAIN m THEN [m EXCEPT ![k] = @ + 1] ELSE m

\* mutante: fetch_add que suma 2
fetch_add_suma_dos(h, k) == [h EXCEPT ![k] = @ + 2]

\* histograma[clave].fetch_add(1)
fetch_add(h, k) == [h EXCEPT ![k] = @ + 1]

\* !std::isnan(e) && e >= 0.0 para e = (r.dif - r.vueltas * 2^32) / 365.2425,
\* que nunca es NaN (|r.dif| < 2^31)
edad_valida(r) == r.vueltas = 0 /\ r.dif >= 0

\* mutante: rango con la cota superior excluida
dentro_rango_excluye_130(k) == k >= 0 /\ k < 130

\* clave >= 0 && clave <= 130
dentro_rango(k) == k >= 0 /\ k <= 130

\* mutante: salir con solo ver terminado, sin consultar la cola
salir_sin_mirar_cola(q) == TRUE

\* condicion de salida del bucle consumidor, evaluada en dos lecturas
salir_si_terminado(t) == t
salir_si_vacia(q) == empty(q)

(* ------------------------------ estado --------------------------------- *)
VARIABLES
    estrategia,   \* "mapa" (main.cpp) o "arreglo" (Edad.h)
    archivo,      \* lineas del archivo de entrada
    abrible,      \* el archivo se puede abrir
    n_hilos,      \* hilos de la region paralela
    reloj,        \* indice en Calendario del dia que marca std::time
    pc,           \* posicion de cada hilo
    productor,    \* hilo que ejecuta el bloque single (0: ninguno aun)
    leidas,       \* lineas ya entregadas por getline
    cola,         \* contenido de la cola (punteros = numero de linea)
    nodos,        \* nodos que la cola tiene reservados
    terminado,    \* std::atomic<bool> terminado
    fecha,        \* puntero que cada consumidor saco de la cola (0: nullptr)
    clave,        \* clave calculada por cada hilo
    mapa,         \* concurrent_flat_map<int,int>
    histograma,   \* std::array<std::atomic<int>,131>
    tareas,       \* tasks creadas y aun no iniciadas (numero de linea)
    linea,        \* task que ejecuta cada hilo (0: ninguna)
    retorno,      \* punto al que vuelve el hilo al terminar la task
    heap,         \* estado del std::string creado con new para cada linea
    abortado,     \* una excepcion salio de la region paralela (std::terminate)
    emitido,      \* ya se escribio la salida
    salida,       \* lineas escritas en stdout: <<edad, cuenta>>
    codigo,       \* codigo de retorno de main (-1: aun no retorna)
    diagnosticos, \* mensajes escritos en stderr
    \* variables de historia
    entregas,     \* veces que pop entrego cada puntero
    incs,         \* incrementos hechos por cuenta de cada linea
    cubeta,       \* cubeta incrementada por cuenta de cada linea (-1: ninguna)
    dia_proc,     \* valor de reloj cuando se llamo a calcular (0: nunca)
    stores,       \* veces que se ejecuto terminado.store(true)
    mal_uso,      \* doble delete o lectura de un string ya liberado
    \* la biblioteca edad:: ejercitada por separado
    llamada,      \* funcion de edad:: que se invoca, con sus argumentos
    resultado     \* lo que devolvio la llamada

varsLib == <<llamada, resultado>>
varsEntrada == <<estrategia, archivo, abrible, n_hilos>>
varsCola == <<cola, nodos>>
varsHist == <<mapa, histograma>>
varsTareas == <<tareas, linea, retorno>>
varsFin == <<abortado, emitido, salida, codigo>>
varsHistoria == <<entregas, incs, cubeta, dia_proc>>
vars == <<varsLib,
          varsEntrada, reloj, pc, productor, leidas, varsCola, terminado,
          fecha, clave, varsHist, varsTareas, heap, varsFin, diagnosticos,
          varsHistoria, stores, mal_uso>>

Hilos == 1 .. MaxHilos
Lineas == 1 .. MaxLineas
Activos == 1 .. n_hilos

RECURSIVE Secuencias(_)
Secuencias(n) ==
    IF n = 0 THEN {<<>>}
    ELSE LET S == Secuencias(n - 1)
         IN S \cup {Append(s, l) : s \in {x \in S : Len(x) = n - 1},
                                   l \in Catalogo}

Entradas == Secuencias(MaxLineas)

\* estado de las variables del programa antes de la region paralela
InitEstado ==
    /\ reloj = 1
    /\ pc = [t \in Hilos |-> IF t <= n_hilos THEN "inicio" ELSE "ausente"]
    /\ productor = 0
    /\ leidas = 0
    /\ cola = <<>>
    /\ nodos = capacidad
    /\ terminado = FALSE
    /\ fecha = [t \in Hilos |-> 0]
    /\ clave = [t \in Hilos |-> -1]
    /\ mapa = <<>>
    /\ histograma = IF estrategia = "arreglo" THEN [k \in 0 .. 130 |-> 0]
                                                ELSE <<>>
    /\ tareas = {}
    /\ linea = [t \in Hilos |-> 0]
    /\ retorno = [t \in Hilos |-> "inicio"]
    /\ heap = [i \in Lineas |-> "sin_crear"]
    /\ abortado = FALSE
    /\ emitido = FALSE
    /\ salida = <<>>
    /\ codigo = -1
    /\ diagnosticos = 0
    /\ entregas = [i \in Lineas |-> 0]
    /\ incs = [i \in Lineas |-> 0]
    /\ cubeta = [i \in Lineas |-> -1]
    /\ dia_proc = [i \in Lineas |-> 0]
    /\ stores = 0
    /\ mal_uso = FALSE

SinLlamada == [f |-> "ninguna"]
SinResultado == [listo |-> FALSE]

Init ==
    /\ estrategia \in {"mapa", "arreglo"}
    /\ abrible \in BOOLEAN
    /\ archivo \in IF abrible THEN Entradas ELSE {<<>>}
    /\ n_hilos \in 1 .. MaxHilos
    /\ llamada = SinLlamada
    /\ resultado = SinResultado
    /\ InitEstado

(* ----------------- acciones comunes a los dos programas ----------------- *)
EnMarcha == ~abortado /\ ~emitido

\* #pragma omp single: el primer hilo que llega ejecuta el bloque; los demas
\* lo saltan (nowait: al bucle consumidor; sin nowait: a la barrera)
EntrarSingle(t) ==
    /\ EnMarcha
    /\ pc[t] = "inicio"
    /\ IF productor = 0
       THEN /\ productor' = t
            /\ pc' = [pc EXCEPT ![t] = "abrir"]
       ELSE /\ productor' = productor
            /\ pc' = [pc EXCEPT ![t] =
                        IF estrategia = "mapa" THEN "pop" ELSE "barrera"]
    /\ UNCHANGED <<varsLib,
                   varsEntrada, reloj, leidas, varsCola, terminado, fecha,
                   clave, varsHist, varsTareas, heap, varsFin, diagnosticos,
                   varsHistoria, stores, mal_uso>>

\* el reloj local pasa al dia siguiente (calcular lee std::time en cada
\* llamada)
Tick ==
    /\ EnMarcha
    /\ reloj <= MaxTicks
    /\ reloj' = reloj + 1
    /\ UNCHANGED <<varsLib,
                   varsEntrada, pc, productor, leidas, varsCola, terminado,
                   fecha, clave, varsHist, varsTareas, heap, varsFin,
                   diagnosticos, varsHistoria, stores, mal_uso>>

(* -------------------- main.cpp: cola y mapa ---------------------------- *)
\* mutante: falta el else; tras el fallo de apertura se sigue al bucle de
\* lectura, que vuelve a ejecutar terminado.store(true)
Abrir_sin_else(t) ==
    /\ EnMarcha
    /\ estrategia = "mapa"
    /\ pc[t] = "abrir"
    /\ IF ~abrible
       THEN /\ diagnosticos' = diagnosticos + 1
            /\ terminado' = TRUE
            /\ stores' = stores + 1
       ELSE UNCHANGED <<diagnosticos, terminado, stores>>
    /\ pc' = [pc EXCEPT ![t] = "getline"]
    /\ UNCHANGED <<varsLib,
                   varsEntrada, reloj, productor, leidas, varsCola, fecha,
                   clave, varsHist, varsTareas, heap, varsFin, varsHistoria,
                   mal_uso>>

\* mutante: el fallo de apertura no avisa el fin de la produccion
Abrir_sin_store(t) ==
    /\ EnMarcha
    /\ estrategia = "mapa"
    /\ pc[t] = "abrir"
    /\ IF ~abrible
       THEN /\ diagnosticos' = diagnosticos + 1
            /\ pc' = [pc EXCEPT ![t] = "pop"]
       ELSE /\ pc' = [pc EXCEPT ![t] = "getline"]
            /\ UNCHANGED diagnosticos
    /\ UNCHANGED <<varsLib,
                   varsEntrada, reloj, productor, leidas, varsCola, fecha,
                   clave, varsHist, varsTareas, heap, varsFin, varsHistoria,
                   mal_uso, terminado, stores>>

\* std::ifstream archivo(ruta); if (!archivo) { cerr; terminado.store(true) }
Abrir(t) ==
    /\ EnMarcha
    /\ estrategia = "mapa"
    /\ pc[t] = "abrir"
    /\ IF ~abrible
       THEN /\ diagnosticos' = diagnosticos + 1
            /\ terminado' = TRUE
            /\ stores' = stores + 1
            /\ pc' = [pc EXCEPT ![t] = "pop"]
       ELSE /\ pc' = [pc EXCEPT ![t] = "getline"]
            /\ UNCHANGED <<diagnosticos, terminado, stores>>
    /\ UNCHANGED <<varsLib,
                   varsEntrada, reloj, productor, leidas, varsCola, fecha,
                   clave, varsHist, varsTareas, heap, varsFin, varsHistoria,
                   mal_uso>>

\* while (std::getline(archivo, linea)) { p = new std::string(...) ... }
\* terminado.store(true)
Getline(t) ==
    /\ EnMarcha
    /\ estrategia = "mapa"
    /\ pc[t] = "getline"
    /\ IF leidas < Len(archivo)
       THEN /\ leidas' = leidas + 1
            /\ heap' = [heap EXCEPT ![leidas + 1] = "viva"]
            /\ pc' = [pc EXCEPT ![t] = "push"]
            /\ UNCHANGED <<terminado, stores>>
       ELSE /\ terminado' = TRUE
            /\ stores' = stores + 1
            /\ pc' = [pc EXCEPT ![t] = "pop"]
            /\ UNCHANGED <<leidas, heap>>
    /\ UNCHANGED <<varsLib,
                   varsEntrada, reloj, productor, varsCola, fecha, clave,
                   varsHist, varsTareas, varsFin, diagnosticos, varsHistoria,
                   mal_uso>>

\* while (!cola.push(p)) { yield }
Push(t) ==
    /\ EnMarcha
    /\ estrategia = "mapa"
    /\ pc[t] = "push"
    /\ LET r == push(cola, nodos, leidas)
       IN IF r.ok
          THEN /\ cola' = r.cola
               /\ nodos' = r.nodos
               /\ pc' = [pc EXCEPT ![t] = "getline"]
          ELSE UNCHANGED <<cola, nodos, pc>>
    /\ UNCHANGED <<varsLib,
                   varsEntrada, reloj, productor, leidas, terminado, fecha,
                   clave, varsHist, varsTareas, heap, varsFin, diagnosticos,
                   varsHistoria, stores, mal_uso>>

\* std::string* fecha = nullptr; if (cola.pop(fecha)) ... else ...
Pop(t) ==
    /\ EnMarcha
    /\ estrategia = "mapa"
    /\ pc[t] = "pop"
    /\ LET r == pop(cola)
       IN IF r.ok
          THEN /\ cola' = r.cola
               /\ fecha' = [fecha EXCEPT ![t] = r.val]
               /\ entregas' = [entregas EXCEPT ![r.val] = @ + 1]
               /\ pc' = [pc EXCEPT ![t] = "procesar"]
          ELSE /\ pc' = [pc EXCEPT ![t] = "leer_terminado"]
               /\ UNCHANGED <<cola, fecha, entregas>>
    /\ UNCHANGED <<varsLib,
                   varsEntrada, reloj, productor, leidas, nodos, terminado,
                   clave, varsHist, varsTareas, heap, varsFin, diagnosticos,
                   incs, cubeta, dia_proc, stores, mal_uso>>

\* if (terminado.load(acquire) && ...) ; si no, yield y reintenta
LeerTerminado(t) ==
    /\ EnMarcha
    /\ estrategia = "mapa"
    /\ pc[t] = "leer_terminado"
    /\ pc' = [pc EXCEPT ![t] =
                IF salir_si_terminado(terminado) THEN "leer_vacia" ELSE "pop"]
    /\ UNCHANGED <<varsLib,
                   varsEntrada, reloj, productor, leidas, varsCola, terminado,
                   fecha, clave, varsHist, varsTareas, heap, varsFin,
                   diagnosticos, varsHistoria, stores, mal_uso>>

\* ... && cola.empty()) break; si no, yield y reintenta
LeerVacia(t) ==
    /\ EnMarcha
    /\ estrategia = "mapa"
    /\ pc[t] = "leer_vacia"
    /\ pc' = [pc EXCEPT ![t] = IF salir_si_vacia(cola) THEN "fin" ELSE "pop"]
    /\ UNCHANGED <<varsLib,
                   varsEntrada, reloj, productor, leidas, varsCola, terminado,
                   fecha, clave, varsHist, varsTareas, heap, varsFin,
                   diagnosticos, varsHistoria, stores, mal_uso>>

\* mutante: falta la prueba !fecha->empty(); la linea vacia llega a calcular
Procesar_sin_prueba_de_vacia(t) ==
    /\ EnMarcha
    /\ estrategia = "mapa"
    /\ pc[t] = "procesar"
    /\ LET i == fecha[t]
           r == tabla_calcular[archivo[i]][reloj]
       IN /\ mal_uso' = (mal_uso \/ (i # 0 /\ heap[i] # "viva"))
          /\ IF i = 0
             THEN /\ pc' = [pc EXCEPT ![t] = "delete"]
                  /\ UNCHANGED <<clave, abortado, dia_proc>>
             ELSE /\ dia_proc' = [dia_proc EXCEPT ![i] = reloj]
                  /\ IF r.lanza
                     THEN /\ abortado' = TRUE
                          /\ UNCHANGED <<pc, clave>>
                     ELSE /\ abortado' = abortado
                          /\ IF edad_valida(r)
                                /\ dentro_rango(truncar(r.dif))
                             THEN /\ clave' = [clave EXCEPT
                                                 ![t] = truncar(r.dif)]
                                  /\ pc' = [pc EXCEPT ![t] = "try_emplace"]
                             ELSE /\ clave' = clave
                                  /\ pc' = [pc EXCEPT ![t] = "delete"]
    /\ UNCHANGED <<varsLib,
                   varsEntrada, reloj, productor, leidas, varsCola, terminado,
                   fecha, varsHist, varsTareas, heap, emitido, salida, codigo,
                   diagnosticos, entregas, incs, cubeta, stores>>

\* if (fecha && !fecha->empty()) { e = calcular(*fecha); if (...) clave }
\* La excepcion de calcular no se captura: sale de la region paralela.
Procesar(t) ==
    /\ EnMarcha
    /\ estrategia = "mapa"
    /\ pc[t] = "procesar"
    /\ LET i == fecha[t]
           r == tabla_calcular[archivo[i]][reloj]
       IN /\ mal_uso' = (mal_uso \/ (i # 0 /\ heap[i] # "viva"))
          /\ IF i = 0 \/ archivo[i] = <<>>
             THEN /\ pc' = [pc EXCEPT ![t] = "delete"]
                  /\ UNCHANGED <<clave, abortado, dia_proc>>
             ELSE /\ dia_proc' = [dia_proc EXCEPT ![i] = reloj]
                  /\ IF r.lanza
                     THEN /\ abortado' = TRUE
                          /\ UNCHANGED <<pc, clave>>
                     ELSE /\ abortado' = abortado
                          /\ IF edad_valida(r)
                                /\ dentro_rango(truncar(r.dif))
                             THEN /\ clave' = [clave EXCEPT
                                                 ![t] = truncar(r.dif)]
                                  /\ pc' = [pc EXCEPT ![t] = "try_emplace"]
                             ELSE /\ clave' = clave
                                  /\ pc' = [pc EXCEPT ![t] = "delete"]
    /\ UNCHANGED <<varsLib,
                   varsEntrada, reloj, productor, leidas, varsCola, terminado,
                   fecha, varsHist, varsTareas, heap, emitido, salida, codigo,
                   diagnosticos, entregas, incs, cubeta, stores>>

\* mapa.try_emplace(clave, 0)
TryEmplace(t) ==
    /\ EnMarcha
    /\ estrategia = "mapa"
    /\ pc[t] = "try_emplace"
    /\ mapa' = try_emplace(mapa, clave[t], 0)
    /\ pc' = [pc EXCEPT ![t] = "visit"]
    /\ UNCHANGED <<varsLib,
                   varsEntrada, reloj, productor, leidas, varsCola, terminado,
                   fecha, clave, histograma, varsTareas, heap, varsFin,
                   diagnosticos, varsHistoria, stores, mal_uso>>

\* mapa.visit(clave, ++par.second)
Visit(t) ==
    /\ EnMarcha
    /\ estrategia = "mapa"
    /\ pc[t] = "visit"
    /\ mapa' = visit(mapa, clave[t])
    /\ incs' = [incs EXCEPT ![fecha[t]] = @ + 1]
    /\ cubeta' = [cubeta EXCEPT ![fecha[t]] = clave[t]]
    /\ pc' = [pc EXCEPT ![t] = "delete"]
    /\ UNCHANGED <<varsLib,
                   varsEntrada, reloj, productor, leidas, varsCola, terminado,
                   fecha, clave, histograma, varsTareas, heap, varsFin,
                   diagnosticos, entregas, dia_proc, stores, mal_uso>>

\* delete fecha
Delete(t) ==
    /\ EnMarcha
    /\ estrategia = "mapa"
    /\ pc[t] = "delete"
    /\ IF fecha[t] = 0
       THEN UNCHANGED <<heap, mal_uso>>
       ELSE /\ mal_uso' = (mal_uso \/ heap[fecha[t]] # "viva")
            /\ heap' = [heap EXCEPT ![fecha[t]] = "liberada"]
    /\ fecha' = [fecha EXCEPT ![t] = 0]
    /\ pc' = [pc EXCEPT ![t] = "pop"]
    /\ UNCHANGED <<varsLib,
                   varsEntrada, reloj, productor, leidas, varsCola, terminado,
                   clave, varsHist, varsTareas, varsFin, diagnosticos,
                   varsHistoria, stores>>

(* -------------------- Edad.h: tasks y arreglo -------------------------- *)
\* std::ifstream archivo(ruta); if (!archivo) { cerr } else { ... }
AbrirArreglo(t) ==
    /\ EnMarcha
    /\ estrategia = "arreglo"
    /\ pc[t] = "abrir"
    /\ IF ~abrible
       THEN /\ diagnosticos' = diagnosticos + 1
            /\ pc' = [pc EXCEPT ![t] = "barrera"]
       ELSE /\ pc' = [pc EXCEPT ![t] = "getline"]
            /\ UNCHANGED diagnosticos
    /\ UNCHANGED <<varsLib,
                   varsEntrada, reloj, productor, leidas, varsCola, terminado,
                   fecha, clave, varsHist, varsTareas, heap, varsFin,
                   varsHistoria, stores, mal_uso>>

\* while (std::getline(archivo, linea)) { #pragma omp task firstprivate(linea) }
CrearTarea(t) ==
    /\ EnMarcha
    /\ estrategia = "arreglo"
    /\ pc[t] = "getline"
    /\ IF leidas < Len(archivo)
       THEN /\ leidas' = leidas + 1
            /\ tareas' = tareas \cup {leidas + 1}
            /\ pc' = pc
       ELSE /\ pc' = [pc EXCEPT ![t] = "taskwait"]
            /\ UNCHANGED <<leidas, tareas>>
    /\ UNCHANGED <<varsLib,
                   varsEntrada, reloj, productor, varsCola, terminado, fecha,
                   clave, varsHist, linea, retorno, heap, varsFin,
                   diagnosticos, varsHistoria, stores, mal_uso>>

\* un hilo en un punto de planificacion (creacion de task, taskwait o
\* barrera) toma una task pendiente
TomarTarea(t) ==
    /\ EnMarcha
    /\ estrategia = "arreglo"
    /\ pc[t] \in {"getline", "taskwait", "barrera"}
    /\ \E i \in tareas :
          /\ tareas' = tareas \ {i}
          /\ linea' = [linea EXCEPT ![t] = i]
    /\ retorno' = [retorno EXCEPT ![t] = pc[t]]
    /\ pc' = [pc EXCEPT ![t] = "tarea"]
    /\ UNCHANGED <<varsLib,
                   varsEntrada, reloj, productor, leidas, varsCola, terminado,
                   fecha, clave, varsHist, heap, varsFin, diagnosticos,
                   varsHistoria, stores, mal_uso>>

\* cuerpo de la task hasta decidir el incremento:
\* if (!linea.empty()) { p = new std::string(...); calcular(*p); ... }
\* La excepcion de calcular no se captura: sale de la task.
EjecutarTarea(t) ==
    /\ EnMarcha
    /\ estrategia = "arreglo"
    /\ pc[t] = "tarea"
    /\ LET i == linea[t]
           r == tabla_calcular[archivo[i]][reloj]
       IN IF archivo[i] = <<>>
          THEN /\ pc' = [pc EXCEPT ![t] = retorno[t]]
               /\ linea' = [linea EXCEPT ![t] = 0]
               /\ UNCHANGED <<clave, abortado, dia_proc, heap>>
          ELSE /\ heap' = [heap EXCEPT ![i] = "viva"]
               /\ dia_proc' = [dia_proc EXCEPT ![i] = reloj]
               /\ IF r.lanza
                  THEN /\ abortado' = TRUE
                       /\ UNCHANGED <<pc, linea, clave>>
                  ELSE /\ abortado' = abortado
                       /\ IF edad_valida(r) /\ dentro_rango(truncar(r.dif))
                          THEN /\ clave' = [clave EXCEPT ![t] = truncar(r.dif)]
                               /\ pc' = [pc EXCEPT ![t] = "fetch_add"]
                               /\ linea' = linea
                          ELSE /\ clave' = clave
                               /\ pc' = [pc EXCEPT ![t] = retorno[t]]
                               /\ linea' = [linea EXCEPT ![t] = 0]
    /\ UNCHANGED <<varsLib,
                   varsEntrada, reloj, productor, leidas, varsCola, terminado,
                   fecha, varsHist, tareas, retorno, emitido, salida, codigo,
                   diagnosticos, entregas, incs, cubeta, stores, mal_uso>>

\* histograma[clave].fetch_add(1, relaxed); fin de la task
FetchAdd(t) ==
    /\ EnMarcha
    /\ estrategia = "arreglo"
    /\ pc[t] = "fetch_add"
    /\ histograma' = fetch_add(histograma, clave[t])
    /\ incs' = [incs EXCEPT ![linea[t]] = @ + 1]
    /\ cubeta' = [cubeta EXCEPT ![linea[t]] = clave[t]]
    /\ linea' = [linea EXCEPT ![t] = 0]
    /\ pc' = [pc EXCEPT ![t] = retorno[t]]
    /\ UNCHANGED <<varsLib,
                   varsEntrada, reloj, productor, leidas, varsCola, terminado,
                   fecha, clave, mapa, tareas, retorno, heap, varsFin,
                   diagnosticos, entregas, dia_proc, stores, mal_uso>>

\* todas las tasks creadas han terminado
tareas_completas == tareas = {} /\ \A u \in Hilos : linea[u] = 0

\* #pragma omp taskwait
Taskwait(t) ==
    /\ EnMarcha
    /\ estrategia = "arreglo"
    /\ pc[t] = "taskwait"
    /\ tareas_completas
    /\ pc' = [pc EXCEPT ![t] = "barrera"]
    /\ UNCHANGED <<varsLib,
                   varsEntrada, reloj, productor, leidas, varsCola, terminado,
                   fecha, clave, varsHist, varsTareas, heap, varsFin,
                   diagnosticos, varsHistoria, stores, mal_uso>>

\* barrera implicita al final de single / de la region paralela
Barrera(t) ==
    /\ EnMarcha
    /\ estrategia = "arreglo"
    /\ pc[t] = "barrera"
    /\ \A u \in Activos : pc[u] \in {"barrera", "fin"}
    /\ tareas_completas
    /\ pc' = [pc EXCEPT ![t] = "fin"]
    /\ UNCHANGED <<varsLib,
                   varsEntrada, reloj, productor, leidas, varsCola, terminado,
                   fecha, clave, varsHist, varsTareas, heap, varsFin,
                   diagnosticos, varsHistoria, stores, mal_uso>>

(* ------------------------------ salida --------------------------------- *)
\* mutante: la salida no espera a todos los hilos
region_terminada_basta_uno == \E t \in Activos : pc[t] = "fin"

\* fin de la region paralela: todos los hilos salieron de su bucle
region_terminada == \A t \in Activos : pc[t] = "fin"

\* ordenes en que visit_all puede recorrer las claves
Ordenes(S) ==
    {f \in [1 .. Cardinality(S) -> S] :
        \A i, j \in 1 .. Cardinality(S) : i # j => f[i] # f[j]}

\* mapa.visit_all(cout << ...); return EXIT_SUCCESS (main.cpp)
SalidaMapa ==
    /\ EnMarcha
    /\ estrategia = "mapa"
    /\ region_terminada
    /\ \E f \in Ordenes(DOMAIN mapa) :
          salida' = [n \in 1 .. Cardinality(DOMAIN mapa) |->
                        <<f[n], mapa[f[n]]>>]
    /\ emitido' = TRUE
    /\ codigo' = 0
    /\ UNCHANGED <<varsLib,
                   varsEntrada, reloj, pc, productor, leidas, varsCola,
                   terminado, fecha, clave, varsHist, varsTareas, heap,
                   abortado, diagnosticos, varsHistoria, stores, mal_uso>>

\* mutante: la salida escribe tambien las cubetas con cuenta 0
SalidaArreglo_sin_filtro ==
    /\ EnMarcha
    /\ estrategia = "arreglo"
    /\ region_terminada
    /\ salida' = SelectSeq([n \in 1 .. 131 |-> <<n - 1, histograma[n - 1]>>],
                           LAMBDA par : TRUE)
    /\ emitido' = TRUE
    /\ codigo' = 0
    /\ UNCHANGED <<varsLib,
                   varsEntrada, reloj, pc, productor, leidas, varsCola,
                   terminado, fecha, clave, varsHist, varsTareas, heap,
                   abortado, diagnosticos, varsHistoria, stores, mal_uso>>

\* for (edad = 0; edad <= 130; ++edad) if (cuenta != 0) cout << ... (Edad.h)
SalidaArreglo ==
    /\ EnMarcha
    /\ estrategia = "arreglo"
    /\ region_terminada
    /\ salida' = SelectSeq([n \in 1 .. 131 |-> <<n - 1, histograma[n - 1]>>],
                           LAMBDA par : par[2] # 0)
    /\ emitido' = TRUE
    /\ codigo' = 0
    /\ UNCHANGED <<varsLib,
                   varsEntrada, reloj, pc, productor, leidas, varsCola,
                   terminado, fecha, clave, varsHist, varsTareas, heap,
                   abortado, diagnosticos, varsHistoria, stores, mal_uso>>

(* -------------------------- especificacion ----------------------------- *)
Paso(t) ==
    \/ EntrarSingle(t)
    \/ Abrir(t)
    \/ Getline(t)
    \/ Push(t)
    \/ Pop(t)
    \/ LeerTerminado(t)
    \/ LeerVacia(t)
    \/ Procesar(t)
    \/ TryEmplace(t)
    \/ Visit(t)
    \/ Delete(t)
    \/ AbrirArreglo(t)
    \/ CrearTarea(t)
    \/ TomarTarea(t)
    \/ EjecutarTarea(t)
    \/ FetchAdd(t)
    \/ Taskwait(t)
    \/ Barrera(t)

Next ==
    \/ \E t \in Hilos : Paso(t)
    \/ Tick
    \/ SalidaMapa
    \/ SalidaArreglo

Spec == Init /\ [][Next]_vars

\* archivos de entrada con los que se verifican las propiedades de progreso
EntradasVivas ==
    {<<>>,
     <<L_2004_11_01, L_2004_11_01>>,
     <<L_vacia, L_1893_11_02>>,
     <<L_2024_11_02, L_no_fecha>>,
     <<L_vacia, L_vacia>>,
     <<L_2004_11_01, L_vacia>>}

InitVivo == Init /\ archivo \in EntradasVivas

\* planificacion justa de los hilos; el reloj no esta obligado a avanzar
FairSpec ==
    /\ InitVivo
    /\ [][Next]_vars
    /\ \A t \in Hilos : WF_vars(Paso(t))
    /\ WF_vars(SalidaMapa)
    /\ WF_vars(SalidaArreglo)

Done == emitido

TypeOK ==
    /\ estrategia \in {"mapa", "arreglo"}
    /\ n_hilos \in 1 .. MaxHilos
    /\ leidas \in 0 .. Len(archivo)
    /\ reloj \in 1 .. MaxTicks + 1
    /\ \A t \in Hilos : fecha[t] \in 0 .. Len(archivo)

(* ------------ la biblioteca edad:: ejercitada por separado ------------- *)
\* variables del programa, que las llamadas sueltas a edad:: no tocan
varsPrograma ==
    <<varsEntrada, reloj, pc, productor, leidas, varsCola, terminado, fecha,
      clave, varsHist, varsTareas, heap, varsFin, diagnosticos, varsHistoria,
      stores, mal_uso>>

L_2005_01_06 == Fecha("2", "0", "0", "5", "0", "1", "0", "6")
L_2005_1_06 == <<"2", "0", "0", "5", "-", "1", "-", "0", "6">>
L_20050106 == <<"2", "0", "0", "5", "0", "1", "0", "6">>

\* textos bien formados: anios, meses y dias escritos con estos digitos
AniosTexto ==
    {<<"0", "0", "0", "0">>, <<"1", "9", "7", "0">>, <<"2", "0", "0", "0">>,
     <<"2", "0", "0", "5">>, <<"2", "0", "2", "4">>, <<"2", "0", "2", "5">>,
     <<"9", "9", "9", "9">>}
MesesTexto == {<<m1, m2>> : m1 \in {"0", "1", "9"},
                            m2 \in {"0", "1", "2", "3", "9"}}
DiasTexto == {<<d1, d2>> : d1 \in {"0", "2", "3", "9"},
                           d2 \in {"0", "1", "2", "6", "9"}}
TextosBienFormados ==
    {Fecha(a[1], a[2], a[3], a[4], m[1], m[2], d[1], d[2]) :
        a \in AniosTexto, m \in MesesTexto, d \in DiasTexto}

\* caracteres con los que se deforma un texto bien formado
Alfabeto == {"0", "9", "-", " ", "+", "a", "/"}

\* textos con uno o dos caracteres cambiados
Deformados ==
    {[b EXCEPT ![p] = c] :
        b \in {L_2004_11_01, L_2005_01_06}, p \in 1 .. 10, c \in Alfabeto}
    \cup {[L_2004_11_01 EXCEPT ![p] = c, ![q] = e] :
            p \in 1 .. 10, q \in 1 .. 10, c \in Alfabeto, e \in Alfabeto}

\* textos de otros largos
OtrosLargos ==
    {SubSeq(L_2005_01_06, 1, n) : n \in 0 .. 9}
    \cup {L_2005_01_06 \o <<c>> : c \in Alfabeto}
    \cup {<<c>> \o L_2005_01_06 : c \in Alfabeto}
    \cup {L_no_fecha, L_2005_1_06, L_20050106}

\* textos que se pasan a parsear_fecha_iso y a calcular
Textos == TextosBienFormados \cup Deformados \cup OtrosLargos

\* dias que marca el reloj local al llamar a calcular
Referencias == {<<1970, 1, 1>>, <<2024, 3, 1>>, <<2024, 11, 1>>}

\* anios con los que se llama a fecha_a_dias
Anios ==
    (-5 .. 5) \cup
    {-401, -400, -399, -101, -100, -99, 99, 100, 101, 399, 400, 401,
     1599, 1600, 1601, 1899, 1900, 1901, 1969, 1970, 1971, 1999, 2000, 2001,
     2023, 2024, 2025}

Llamadas ==
    {[f |-> "parsear_fecha_iso", texto |-> t] : t \in Textos}
    \cup {[f |-> "fecha_a_dias", anio |-> a, mes |-> m, dia |-> d] :
            a \in Anios, m \in 1 .. 12, d \in 1 .. 31}
    \cup {[f |-> "calcular", fecha_nacimiento |-> t, hoy |-> h] :
            t \in Textos, h \in Referencias}

InitLib ==
    /\ llamada \in Llamadas
    /\ resultado = SinResultado
    /\ estrategia = "mapa"
    /\ abrible = FALSE
    /\ archivo = <<>>
    /\ n_hilos = 1
    /\ InitEstado

\* std::tie(anio, mes, dia) = edad::parsear_fecha_iso(texto)
Llamar_parsear_fecha_iso ==
    /\ llamada.f = "parsear_fecha_iso"
    /\ ~resultado.listo
    /\ resultado' = [listo |-> TRUE, val |-> parsear_fecha_iso(llamada.texto)]
    /\ UNCHANGED <<llamada, varsPrograma>>

\* dias = edad::fecha_a_dias(anio, mes, dia)
Llamar_fecha_a_dias ==
    /\ llamada.f = "fecha_a_dias"
    /\ ~resultado.listo
    /\ resultado' =
          [listo |-> TRUE,
           val |-> [dias |-> fecha_a_dias(llamada.anio, llamada.mes,
                                          llamada.dia),
                    desborde |-> desborde(llamada.anio, llamada.mes,
                                          llamada.dia)]]
    /\ UNCHANGED <<llamada, varsPrograma>>

\* e = edad::calcular(fecha_nacimiento), con el reloj marcando llamada.hoy
Llamar_calcular ==
    /\ llamada.f = "calcular"
    /\ ~resultado.listo
    /\ resultado' = [listo |-> TRUE,
                     val |-> calcular(llamada.fecha_nacimiento, llamada.hoy)]
    /\ UNCHANGED <<llamada, varsPrograma>>

NextLib ==
    \/ Llamar_parsear_fecha_iso
    \/ Llamar_fecha_a_dias
    \/ Llamar_calcular

SpecLib == InitLib /\ [][NextLib]_vars

(* --------------------- definiciones para las propiedades --------------- *)
RECURSIVE SumaSobre(_, _)
SumaSobre(f, S) ==
    IF S = {} THEN 0
    ELSE LET k == CHOOSE x \in S : TRUE
         IN f[k] + SumaSobre(f, S \ {k})

\* suma de todas las cuentas de un histograma
SumaCuentas(f) == SumaSobre(f, {k \in DOMAIN f : f[k] # 0})

\* histograma del programa que se esta ejecutando
Hist == IF estrategia = "mapa" THEN mapa ELSE histograma

\* texto con la forma YYYY-MM-DD: 10 caracteres, '-' en 4 y 7, digitos
BienFormada(texto) ==
    /\ Len(texto) = 10
    /\ texto[5] = "-"
    /\ texto[8] = "-"
    /\ \A n \in {1, 2, 3, 4, 6, 7, 9, 10} : texto[n] \in Digitos

\* dias entre la fecha de nacimiento bien formada f y el dia d del calendario
DifTexto(f, d) ==
    LET anio == 1000 * ValorDigito(f[1]) + 100 * ValorDigito(f[2])
                  + 10 * ValorDigito(f[3]) + ValorDigito(f[4])
        mes == 10 * ValorDigito(f[6]) + ValorDigito(f[7])
        dia == 10 * ValorDigito(f[9]) + ValorDigito(f[10])
        h == Calendario[d]
    IN fecha_a_dias(h[1], h[2], h[3]) - fecha_a_dias(anio, mes, dia)

\* la edad de f el dia d es valida (>= 0) y su parte entera esta en [0,130]:
\* 0 <= dif / 365.2425 < 131
ContableTexto(f, d) ==
    /\ BienFormada(f)
    /\ DifTexto(f, d) >= 0
    /\ DifTexto(f, d) * 400 < 131 * 146097

\* parte entera de la edad de f el dia d, si es contable (-1 si no)
CubetaTexto(f, d) ==
    IF ContableTexto(f, d)
    THEN CHOOSE k \in 0 .. 130 :
            /\ k * 146097 <= DifTexto(f, d) * 400
            /\ DifTexto(f, d) * 400 < (k + 1) * 146097
    ELSE -1

\* cubeta esperada para cada linea del catalogo y cada dia del calendario
CubetaEsperada ==
    [f \in Catalogo |-> [d \in DOMAIN Calendario |-> CubetaTexto(f, d)]]

\* dia con el que se calcula la edad de la linea i
DiaDe(i) == IF dia_proc[i] # 0 THEN dia_proc[i] ELSE reloj

\* parte entera de la edad de la linea i (-1 si no es contable)
CubetaDe(i) == CubetaEsperada[archivo[i]][DiaDe(i)]

\* la linea i tiene edad valida cuya parte entera esta en [0,130]
Contable(i) == CubetaDe(i) # -1

\* K: lineas de la entrada con edad valida y en rango
K == Cardinality({i \in 1 .. Len(archivo) : Contable(i)})

\* el puntero de la linea i ya fue encolado con exito
Encolada(i) ==
    /\ estrategia = "mapa"
    /\ i <= leidas
    /\ ~(i = leidas /\ productor # 0 /\ pc[productor] = "push")

VecesEnCola(i) == Cardinality({n \in 1 .. Len(cola) : cola[n] = i})
EnManos(i) == Cardinality({t \in Hilos : fecha[t] = i})

\* el procesamiento de la linea i termino
Procesada(i) ==
    IF estrategia = "mapa"
    THEN heap[i] = "liberada"
    ELSE i <= leidas /\ i \notin tareas /\ \A t \in Hilos : linea[t] # i

(* ------------------------------- C1 ------------------------------------ *)
\* C1: una vez en Done, la suma de todas las cuentas del histograma es K, el
\* numero de lineas de la entrada cuya edad (calculada al procesarlas) es
\* valida y trunca a [0,130]; no se pierde ni se duplica ningun incremento.
C1_Conservacion == Done => SumaCuentas(Hist) = K

\* dos hilos incrementaron la misma clave del mapa y la corrida termino
C1_Testigo ==
    /\ Done
    /\ estrategia = "mapa"
    /\ n_hilos = 2
    /\ \E t, u \in Hilos : t # u /\ clave[t] = clave[u] /\ clave[t] >= 0
    /\ \E k \in DOMAIN mapa : mapa[k] = 2

(* ------------------------------- C2 ------------------------------------ *)
\* C2: todo puntero encolado con exito esta en exactamente un lugar (en la
\* cola, en manos de un unico consumidor, o ya liberado) y pop lo entrego a
\* lo mas una vez; pop nunca entrega un puntero que no fue encolado; al
\* llegar a Done cada puntero encolado fue entregado exactamente una vez.
C2_SinPerdidaNiDuplicado ==
    estrategia = "mapa" =>
        \A i \in Lineas :
            /\ entregas[i] <= 1
            /\ Encolada(i) =>
                  /\ VecesEnCola(i) + EnManos(i)
                        + (IF heap[i] = "liberada" THEN 1 ELSE 0) = 1
                  /\ entregas[i] = 1 - VecesEnCola(i)
            /\ ~Encolada(i) =>
                  VecesEnCola(i) = 0 /\ EnManos(i) = 0 /\ entregas[i] = 0
            /\ (Done /\ Encolada(i)) => entregas[i] = 1

\* dos consumidores tienen cada uno un puntero distinto
C2_Testigo ==
    /\ estrategia = "mapa"
    /\ \E t, u \in Hilos : fecha[t] = 1 /\ fecha[u] = 2
    /\ cola = <<>>

(* ------------------------------- C3 ------------------------------------ *)
\* C3: con planificacion justa, para toda entrada finita y todo numero de
\* hilos, la corrida llega a Done.
C3_Terminacion == <>Done

(* ------------------------------- C4 ------------------------------------ *)
\* C4: una linea que no tiene la forma de fecha no es fatal: al procesarla
\* no se aborta la corrida y no se actualiza el histograma.
C4_LineaMalformadaNoFatal ==
    \A i \in 1 .. Len(archivo) :
        (dia_proc[i] # 0 /\ ~BienFormada(archivo[i])) =>
            ~abortado /\ incs[i] = 0

(* ------------------------------- C5 ------------------------------------ *)
\* el productor ya no va a encolar nada mas
ProductorTermino ==
    productor # 0 /\ pc[productor] \notin {"abrir", "getline", "push"}

\* C5: un consumidor sale de su bucle solo desde la lectura de cola.empty(),
\* con terminado en verdadero y la cola vacia; por eso, en todo estado en que
\* algun consumidor ya salio, el productor hizo su ultimo push y la cola esta
\* vacia, y al llegar a Done todo puntero encolado fue procesado y liberado.
C5_SalidaConjuntiva ==
    /\ [](estrategia = "mapa" =>
            /\ (\E t \in Activos : pc[t] = "fin") =>
                  terminado /\ cola = <<>> /\ ProductorTermino
            /\ Done => \A i \in 1 .. leidas : heap[i] = "liberada")
    /\ [][\A t \in Hilos :
            estrategia = "mapa" =>
              /\ (pc[t] # "fin" /\ pc'[t] = "fin") =>
                    pc[t] = "leer_vacia" /\ terminado /\ cola = <<>>
              /\ (pc[t] # "leer_vacia" /\ pc'[t] = "leer_vacia") =>
                    pc[t] = "leer_terminado" /\ terminado
              /\ (pc[t] # "leer_terminado" /\ pc'[t] = "leer_terminado") =>
                    pc[t] = "pop" /\ cola = <<>>]_vars

\* un consumidor ya salio mientras otro todavia procesa un puntero
C5_Testigo ==
    /\ estrategia = "mapa"
    /\ \E t, u \in Activos : pc[t] = "fin" /\ fecha[u] # 0

(* ------------------------------- C6 ------------------------------------ *)
\* C6: terminado parte en falso, pasa a verdadero exactamente una vez, solo
\* por obra del productor y solo tras su ultimo push (fin de la entrada) o
\* tras fallar la apertura; nunca vuelve a falso y no hay push con terminado
\* en verdadero.
C6_ProtocoloTerminado ==
    /\ [](estrategia = "mapa" =>
            /\ stores <= 1
            /\ terminado <=> stores = 1
            /\ terminado => ProductorTermino
            /\ terminado => (IF abrible THEN leidas = Len(archivo)
                                        ELSE leidas = 0))
    /\ [][estrategia = "mapa" =>
            /\ terminado => terminado'
            /\ terminado => Len(cola') <= Len(cola)
            /\ stores' # stores =>
                  /\ productor # 0
                  /\ pc[productor] \in {"abrir", "getline"}
                  /\ pc'[productor] = "pop"
                  /\ \A t \in Hilos : t # productor => pc'[t] = pc[t]]_vars

\* terminado ya es verdadero y aun quedan punteros en la cola
C6_Testigo == estrategia = "mapa" /\ terminado /\ Len(cola) = 2

(* ------------------------------- C7 ------------------------------------ *)
\* C7: cada std::string creado para una linea se libera exactamente una vez;
\* ninguno se libera dos veces ni se usa despues de liberado, y en Done no
\* queda ninguno sin liberar.
C7_LiberacionExactaUnaVez ==
    /\ ~mal_uso
    /\ Done => \A i \in Lineas : heap[i] # "viva"

(* ------------------------------- C8 ------------------------------------ *)
\* C8: si el archivo no se puede abrir, el productor no encola nada y avisa
\* el fin de inmediato, todos los hilos salen, el histograma final es vacio
\* (no se escribe ninguna linea) y main retorna EXIT_SUCCESS.
C8_ArchivoInabrible ==
    /\ [](~abrible =>
            /\ leidas = 0 /\ cola = <<>> /\ tareas = {}
            /\ \A i \in Lineas : heap[i] = "sin_crear" /\ entregas[i] = 0
            /\ SumaCuentas(Hist) = 0
            /\ (estrategia = "mapa" /\ productor # 0
                  /\ pc[productor] # "abrir") => terminado
            /\ (productor # 0 /\ pc[productor] # "abrir") => diagnosticos = 1
            /\ ~abortado
            /\ Done => salida = <<>> /\ codigo = 0)
    /\ (~abrible ~> (Done /\ region_terminada))

\* corrida terminada sobre un archivo que no se pudo abrir, con dos hilos
C8_Testigo ==
    ~abrible /\ Done /\ n_hilos = 2 /\ diagnosticos = 1 /\ salida = <<>>

(* ------------------------------- C9 ------------------------------------ *)
\* C9: el histograma esta vacio al comenzar; la salida se lee solo despues
\* de que todos los consumidores salieron de su bucle (mapa) o todas las
\* tasks terminaron (arreglo); iniciada la salida no hay mas incrementos.
C9_SalidaTrasQuiescencia ==
    /\ [](/\ productor = 0 => SumaCuentas(Hist) = 0 /\ mapa = <<>>
          /\ emitido =>
                /\ \A t \in Activos : pc[t] = "fin"
                /\ \A t \in Hilos : fecha[t] = 0 /\ linea[t] = 0
                /\ tareas = {}
                /\ cola = <<>>
                /\ leidas = Len(archivo)
                /\ \A n \in 1 .. Len(salida) :
                      salida[n][2] = Hist[salida[n][1]])
    /\ [][emitido => mapa' = mapa /\ histograma' = histograma]_vars

\* salida escrita con dos hilos y al menos una cuenta
C9_Testigo ==
    emitido /\ n_hilos = 2 /\ Len(salida) >= 1 /\ SumaCuentas(Hist) >= 2

(* ------------------------------- C10 ----------------------------------- *)
\* C10: procesar una linea hace exactamente un incremento, en la cubeta
\* trunc(edad), si y solo si la edad es valida (>= 0) y su parte entera esta
\* en [0,130]; en otro caso no hace ninguno.  Nacer el mismo dia de
\* referencia cuenta en la cubeta 0, nacer despues no cuenta, la parte
\* entera 130 cuenta y la 131 no.
C10_ChequeoDeRango ==
    \A i \in 1 .. Len(archivo) :
        /\ incs[i] <= 1
        /\ (Procesada(i) /\ archivo[i] # <<>>) =>
              IF Contable(i)
              THEN incs[i] = 1 /\ cubeta[i] = CubetaDe(i)
              ELSE incs[i] = 0 /\ cubeta[i] = -1
        /\ (Procesada(i) /\ archivo[i] = L_2024_11_01 /\ dia_proc[i] = 1) =>
              cubeta[i] = 0
        /\ (Procesada(i) /\ archivo[i] = L_2024_11_02 /\ dia_proc[i] = 1) =>
              incs[i] = 0
        /\ (Procesada(i) /\ archivo[i] = L_1893_11_02 /\ dia_proc[i] = 1) =>
              cubeta[i] = 130
        /\ (Procesada(i) /\ archivo[i] = L_1893_11_01 /\ dia_proc[i] = 1) =>
              incs[i] = 0

\* se procesaron una linea de edad 130,99 (contada en 130) y una de edad
\* 131,00 (no contada)
C10_Testigo ==
    /\ Done
    /\ archivo = <<L_1893_11_02, L_1893_11_01>>
    /\ dia_proc[1] = 1 /\ dia_proc[2] = 1
    /\ cubeta[1] = 130 /\ incs[1] = 1
    /\ incs[2] = 0

(* ------------------------------- C11 ----------------------------------- *)
\* cuenta de la cubeta a en el histograma del programa
Cuenta(a) ==
    IF estrategia = "mapa"
    THEN IF a \in DOMAIN mapa THEN mapa[a] ELSE 0
    ELSE histograma[a]

\* todas las llamadas a calcular de la corrida vieron el dia d
FechaDeReferenciaFija(d) ==
    \A i \in 1 .. Len(archivo) : dia_proc[i] \in {0, d}

\* C11: para toda entrada, con lineas malformadas o sin ellas, y una fecha
\* de referencia fija, la corrida produce un resultado (ninguna linea la
\* aborta) y en Done la cuenta de cada cubeta a es el numero de lineas de la
\* entrada cuya edad trunca a a, sea cual sea el numero de hilos y el orden
\* de ejecucion; una linea malformada no aporta nada.
C11_ResultadoPorCubeta ==
    /\ ~abortado
    /\ \A d \in DOMAIN Calendario :
          (Done /\ FechaDeReferenciaFija(d)) =>
              \A a \in 0 .. 130 :
                  Cuenta(a) = Cardinality({i \in 1 .. Len(archivo) :
                                  CubetaEsperada[archivo[i]][d] = a})

(* ------------------------------- C12 ----------------------------------- *)
\* C12: parsear_fecha_iso acepta exactamente la forma ISO: para todo texto,
\* el parseo tiene exito si y solo si el texto tiene 10 caracteres, '-' en
\* las posiciones 4 y 7 y un digito decimal en las otras 8; cualquier otro
\* texto (otro largo, vacio, separador fuera de lugar, o una letra, un
\* espacio o un signo en un campo numerico) falla con error de formato.
C12_FormaISOExacta ==
    (resultado.listo /\ llamada.f = "parsear_fecha_iso") =>
        (~resultado.val.lanza <=> BienFormada(llamada.texto))

(* ------------------------------- C13 ----------------------------------- *)
\* valor decimal de los caracteres de los campos de un texto bien formado
CamposDecimales(t) ==
    [anio |-> 1000 * ValorDigito(t[1]) + 100 * ValorDigito(t[2])
                + 10 * ValorDigito(t[3]) + ValorDigito(t[4]),
     mes |-> 10 * ValorDigito(t[6]) + ValorDigito(t[7]),
     dia |-> 10 * ValorDigito(t[9]) + ValorDigito(t[10])]

\* C13: para todo texto bien formado parsear_fecha_iso devuelve (anio, mes,
\* dia) iguales al valor decimal de los caracteres 0-3, 5-6 y 8-9, sin
\* validar el rango de mes ni de dia, y calcular sobre ese texto nunca
\* falla: una fecha que no existe en el calendario (mes 13, mes 00, dia 00,
\* dia 99) da una edad numerica definida y no un error.
C13_SinValidacionDeRango ==
    /\ (resultado.listo /\ llamada.f = "parsear_fecha_iso"
          /\ BienFormada(llamada.texto)) =>
            /\ ~resultado.val.lanza
            /\ resultado.val.anio = CamposDecimales(llamada.texto).anio
            /\ resultado.val.mes = CamposDecimales(llamada.texto).mes
            /\ resultado.val.dia = CamposDecimales(llamada.texto).dia
    /\ (resultado.listo /\ llamada.f = "calcular"
          /\ BienFormada(llamada.fecha_nacimiento)) =>
            /\ ~resultado.val.lanza
            /\ resultado.val.dif \in Int
            /\ resultado.val.vueltas \in {0, 1}

\* calcular devolvio una edad para un texto bien formado con mes 13
C13_Testigo ==
    /\ resultado.listo
    /\ llamada.f = "calcular"
    /\ llamada.fecha_nacimiento = Fecha("2", "0", "0", "5", "1", "3", "0", "6")
    /\ llamada.hoy = <<2024, 11, 1>>
    /\ ~resultado.val.lanza
    /\ resultado.val.dif = 20028 - 13154

(* ------------------------------- C14 ----------------------------------- *)
\* calendario gregoriano proleptico: bisiesto si es divisible por 4 y no
\* por 100, o si es divisible por 400
Bisiesto(y) == (y % 4 = 0 /\ y % 100 # 0) \/ y % 400 = 0

DiasDelMes(y, m) ==
    CASE m \in {1, 3, 5, 7, 8, 10, 12} -> 31
      [] m \in {4, 6, 9, 11} -> 30
      [] m = 2 -> IF Bisiesto(y) THEN 29 ELSE 28

\* la fecha existe en el calendario
Existe(y, m, d) == m \in 1 .. 12 /\ d \in 1 .. DiasDelMes(y, m)

\* dias entre el 1 de enero de 1970 y el 1 de enero del anio y, contando
\* anio por anio
DiasAntesDelAnio ==
    [y \in Anios |->
        IF y >= 1970
        THEN 365 * (y - 1970)
                + Cardinality({z \in 1970 .. y - 1 : Bisiesto(z)})
        ELSE -(365 * (1970 - y)
                + Cardinality({z \in y .. 1969 : Bisiesto(z)}))]

RECURSIVE DiasAntesDelMes(_, _)
DiasAntesDelMes(y, m) ==
    IF m = 1 THEN 0 ELSE DiasAntesDelMes(y, m - 1) + DiasDelMes(y, m - 1)

\* cuenta de referencia de los dias transcurridos desde 1970-01-01
ConteoIngenuo(y, m, d) == DiasAntesDelAnio[y] + DiasAntesDelMes(y, m) + d - 1

\* el dia siguiente en el calendario
Siguiente(y, m, d) ==
    IF d < DiasDelMes(y, m) THEN <<y, m, d + 1>>
    ELSE IF m < 12 THEN <<y, m + 1, 1>>
    ELSE <<y + 1, 1, 1>>

\* C14: fecha_a_dias es el numero de dia gregoriano proleptico relativo a
\* 1970-01-01: para toda fecha existente de un rango acotado de anios que
\* incluye anios negativos y el anio 0, vale 0 en 1970-01-01 y coincide con
\* la cuenta de referencia dia por dia; en particular dos fechas
\* consecutivas difieren en exactamente 1 y
\* fecha_a_dias(-1,3,1) - fecha_a_dias(-1,2,28) = 1.
C14_NumeroDeDiaGregoriano ==
    (resultado.listo /\ llamada.f = "fecha_a_dias"
        /\ Existe(llamada.anio, llamada.mes, llamada.dia)) =>
        LET y == llamada.anio
            m == llamada.mes
            d == llamada.dia
            s == Siguiente(y, m, d)
        IN /\ ~resultado.val.desborde
           /\ resultado.val.dias = ConteoIngenuo(y, m, d)
           /\ (y = 1970 /\ m = 1 /\ d = 1) => resultado.val.dias = 0
           /\ fecha_a_dias(s[1], s[2], s[3]) = resultado.val.dias + 1
           /\ (y = -1 /\ m = 2 /\ d = 28) =>
                 fecha_a_dias(-1, 3, 1) - resultado.val.dias = 1

\* se calculo el numero de dia del 29 de febrero del anio -400
C14_Testigo ==
    /\ resultado.listo
    /\ llamada = [f |-> "fecha_a_dias", anio |-> -400, mes |-> 2, dia |-> 29]
    /\ resultado.val.dias = -865566

(* ------------------------------- C15 ----------------------------------- *)
\* la fecha (m2, d2) es posterior a la fecha (m, d) dentro de un mismo anio
Posterior(m2, d2, m, d) == m2 > m \/ (m2 = m /\ d2 > d)

\* C15: fecha_a_dias preserva el orden: con mes en 1..12 y dia en 1..31
\* fijos, un anio mayor da un numero de dia estrictamente mayor; y de dos
\* fechas existentes de un mismo anio, la posterior tiene el numero de dia
\* estrictamente mayor.
C15_PreservaElOrden ==
    (resultado.listo /\ llamada.f = "fecha_a_dias") =>
        LET y == llamada.anio
            m == llamada.mes
            d == llamada.dia
        IN /\ \A y2 \in Anios :
                 y2 > y => fecha_a_dias(y2, m, d) > resultado.val.dias
           /\ Existe(y, m, d) =>
                 \A m2 \in 1 .. 12 : \A d2 \in 1 .. 31 :
                     (Existe(y, m2, d2) /\ Posterior(m2, d2, m, d)) =>
                         fecha_a_dias(y, m2, d2) > resultado.val.dias

\* se calculo el numero de dia del 31 de enero de 2000, anterior a las
\* fechas de marzo del mismo anio, que caen en la era siguiente
C15_Testigo ==
    /\ resultado.listo
    /\ llamada = [f |-> "fecha_a_dias", anio |-> 2000, mes |-> 1, dia |-> 31]
    /\ resultado.val.dias = 10987
    /\ fecha_a_dias(2000, 3, 1) = 11017

(* ------------------------------- C16 ----------------------------------- *)
\* la fecha de campos c es posterior al dia h = <<anio, mes, dia>>
Despues(c, h) ==
    \/ c.anio > h[1]
    \/ c.anio = h[1] /\ c.mes > h[2]
    \/ c.anio = h[1] /\ c.mes = h[2] /\ c.dia > h[3]

\* la edad que devolvio calcular, (v.dif - v.vueltas * 2^32) / 365.2425, es
\* negativa
EdadNegativa(v) == v.vueltas = 1 \/ v.dif < 0

\* truncar(dif) es la parte entera de dif / 365.2425, es decir
\* floor(10000 * dif / 3652425)   (3652425 / 10000 = 146097 / 400)
TruncaAlPiso(dif) ==
    /\ truncar(dif) * 146097 <= dif * 400
    /\ dif * 400 < (truncar(dif) + 1) * 146097

\* calcular devolvio (fecha_a_dias(r) - fecha_a_dias(b)) / 365.2425 para la
\* fecha de nacimiento b de campos c y el dia de referencia h
EsLaFormula(v, c, h) ==
    /\ ~v.lanza
    /\ v.dif = fecha_a_dias(h[1], h[2], h[3])
                  - fecha_a_dias(c.anio, c.mes, c.dia)
    /\ v.vueltas = (IF desborde(c.anio, c.mes, c.dia) THEN 1 ELSE 0)

\* C16 (enunciado original): para toda fecha de nacimiento bien formada b y
\* fecha de referencia r, calcular devuelve
\* (fecha_a_dias(r) - fecha_a_dias(b)) / 365.2425, cuya parte entera es
\* floor(10000 * d / 3652425) cuando r no es anterior a b; si b = r la edad
\* es exactamente 0, y la edad es negativa exactamente cuando b es posterior
\* a r.
C16_FormulaDeEdad ==
    (resultado.listo /\ llamada.f = "calcular"
        /\ BienFormada(llamada.fecha_nacimiento)) =>
        LET v == resultado.val
            c == CamposDecimales(llamada.fecha_nacimiento)
            h == llamada.hoy
        IN /\ EsLaFormula(v, c, h)
           /\ ~Despues(c, h) => edad_valida(v) /\ TruncaAlPiso(v.dif)
           /\ (c.anio = h[1] /\ c.mes = h[2] /\ c.dia = h[3]) =>
                 v.dif = 0 /\ v.vueltas = 0
           /\ EdadNegativa(v) <=> Despues(c, h)

\* C16 (enunciado corregido): para toda fecha de nacimiento bien formada b
\* y fecha de referencia r, calcular devuelve
\* (fecha_a_dias(r) - fecha_a_dias(b)) / 365.2425 y si b = r la edad es
\* exactamente 0; si ademas b existe en el calendario, la edad es negativa
\* exactamente cuando b es posterior a r, y cuando r no es anterior a b su
\* parte entera es floor(10000 * d / 3652425).
C16_FormulaDeEdadFechasExistentes ==
    (resultado.listo /\ llamada.f = "calcular"
        /\ BienFormada(llamada.fecha_nacimiento)) =>
        LET v == resultado.val
            c == CamposDecimales(llamada.fecha_nacimiento)
            h == llamada.hoy
        IN /\ EsLaFormula(v, c, h)
           /\ (c.anio = h[1] /\ c.mes = h[2] /\ c.dia = h[3]) =>
                 v.dif = 0 /\ v.vueltas = 0
           /\ Existe(c.anio, c.mes, c.dia) =>
                 /\ EdadNegativa(v) <=> Despues(c, h)
                 /\ ~Despues(c, h) => edad_valida(v) /\ TruncaAlPiso(v.dif)

\* calcular devolvio 0 para 1970-01-01 con el reloj en 1970-01-01
C16_Testigo ==
    /\ resultado.listo
    /\ llamada.f = "calcular"
    /\ llamada.fecha_nacimiento = Fecha("1", "9", "7", "0", "0", "1", "0", "1")
    /\ llamada.hoy = <<1970, 1, 1>>
    /\ resultado.val.dif = 0
    /\ ~EdadNegativa(resultado.val)

(* ------------------------------- C17 ----------------------------------- *)
\* C17: dentro de una corrida todas las lineas se envejecen contra la misma
\* fecha de referencia, aunque el reloj cambie de dia mientras la corrida
\* esta en curso: todas las llamadas a calcular ven el mismo dia, y dos
\* lineas con la misma fecha de nacimiento caen siempre en la misma cubeta.
C17_FechaDeReferenciaUnica ==
    \A i, j \in 1 .. Len(archivo) :
        /\ (dia_proc[i] # 0 /\ dia_proc[j] # 0) => dia_proc[i] = dia_proc[j]
        /\ (Procesada(i) /\ Procesada(j) /\ archivo[i] = archivo[j]) =>
              cubeta[i] = cubeta[j]

(* ------------------------------- C18 ----------------------------------- *)
\* edades de las lineas escritas
EdadesEscritas == {salida[n][1] : n \in 1 .. Len(salida)}

\* C18: en Done el programa escribio exactamente una linea por cada cubeta
\* cuya cuenta final es distinta de cero y ninguna linea de otra cubeta; en
\* el mapa toda clave presente al momento de la salida tiene cuenta >= 1
\* (ninguna queda con su valor inicial 0), y con el arreglo las lineas salen
\* en orden estrictamente creciente de edad.
C18_ContenidoDeLaSalida ==
    Done =>
        /\ EdadesEscritas = {a \in 0 .. 130 : Cuenta(a) # 0}
        /\ \A n, m \in 1 .. Len(salida) :
              n # m => salida[n][1] # salida[m][1]
        /\ \A n \in 1 .. Len(salida) : salida[n][2] = Cuenta(salida[n][1])
        /\ estrategia = "mapa" => \A k \in DOMAIN mapa : mapa[k] >= 1
        /\ estrategia = "arreglo" =>
              \A n, m \in 1 .. Len(salida) :
                  n < m => salida[n][1] < salida[m][1]

\* el programa del arreglo escribio dos cubetas, en orden creciente
C18_Testigo ==
    /\ Done
    /\ estrategia = "arreglo"
    /\ archivo = <<L_2004_11_01, L_2024_11_01>>
    /\ salida = << <<0, 1>>, <<20, 1>> >>

(* ------------------------------- C19 ----------------------------------- *)
\* C19: en todo estado alcanzable la cola guarda a lo mas capacidad
\* elementos; un push hecho con la cola en su capacidad devuelve false sin
\* insertar, de modo que la cola nunca pasa de los nodos que reservo su
\* constructor.
C19_ColaAcotada ==
    estrategia = "mapa" => Len(cola) <= capacidad /\ nodos = capacidad

(* ------------------------------- C20 ----------------------------------- *)
\* el productor esta en el bucle "while (!cola.push(p))"
ProductorEnPush == productor # 0 /\ pc[productor] = "push"

\* lineas cuyo puntero ya fue encolado con exito
Empujadas == leidas - (IF ProductorEnPush THEN 1 ELSE 0)

\* C20: el productor crea exactamente un elemento por linea de la entrada,
\* en el orden del archivo, y pasa a la linea siguiente solo cuando el push
\* del elemento actual tuvo exito; un push que no tiene exito no cambia la
\* cola y se reintenta con el mismo elemento: ninguna linea se salta y
\* ninguna se encola dos veces.
C20_DisciplinaDelProductor ==
    /\ [](estrategia = "mapa" =>
            /\ Len(cola) <= Empujadas
            /\ \A n \in 1 .. Len(cola) :
                  cola[n] = Empujadas - Len(cola) + n
            /\ \A i \in Lineas : heap[i] # "sin_crear" <=> i <= leidas
            /\ \A i \in Lineas :
                  entregas[i] = IF i <= Empujadas - Len(cola) THEN 1 ELSE 0
            /\ Done => Empujadas = Len(archivo))
    /\ [][estrategia = "mapa" =>
            /\ leidas' \in {leidas, leidas + 1}
            /\ leidas' = leidas + 1 => Empujadas = leidas
            /\ Len(cola') > Len(cola) =>
                  /\ ProductorEnPush
                  /\ cola' = Append(cola, leidas)
                  /\ pc'[productor] = "getline"
            /\ (ProductorEnPush /\ pc'[productor] = "push") =>
                  /\ leidas' = leidas
                  /\ Len(cola') <= Len(cola)]_vars

\* el productor va a encolar la segunda linea con la primera aun en la cola
C20_Testigo ==
    /\ estrategia = "mapa"
    /\ ProductorEnPush
    /\ leidas = 2
    /\ cola = <<1>>

(* ------------------------------- C21 ----------------------------------- *)
\* incrementos de la clave k que ya se completaron
IncrementosCompletos(k) ==
    Cardinality({i \in 1 .. Len(archivo) : incs[i] = 1 /\ cubeta[i] = k})

\* C21: el incremento del mapa, try_emplace(clave, 0) seguido de
\* visit(clave, ++), crea la entrada con valor 0 solo si no existe, nunca
\* reinicia una cuenta existente y suma exactamente 1; para todo orden de
\* ejecucion de n incrementos concurrentes de una misma clave, su cuenta
\* tras completarse los n es exactamente n, y los incrementos de una clave
\* no cambian la cuenta de otra.
C21_SemanticaDelIncremento ==
    /\ [](estrategia = "mapa" =>
            \A k \in DOMAIN mapa : mapa[k] = IncrementosCompletos(k))
    /\ [][estrategia = "mapa" =>
            \A t \in Hilos :
              /\ (pc[t] = "try_emplace" /\ pc'[t] = "visit") =>
                    /\ DOMAIN mapa' = DOMAIN mapa \cup {clave[t]}
                    /\ \A j \in DOMAIN mapa : mapa'[j] = mapa[j]
                    /\ clave[t] \notin DOMAIN mapa => mapa'[clave[t]] = 0
              /\ (pc[t] = "visit" /\ pc'[t] = "delete") =>
                    /\ clave[t] \in DOMAIN mapa
                    /\ DOMAIN mapa' = DOMAIN mapa
                    /\ mapa'[clave[t]] = mapa[clave[t]] + 1
                    /\ \A j \in DOMAIN mapa :
                          j # clave[t] => mapa'[j] = mapa[j]]_vars

\* dos consumidores incrementan la misma clave a la vez: uno ya sumo y el
\* otro, que encontro la entrada creada, todavia no
C21_Testigo ==
    /\ estrategia = "mapa"
    /\ \E t, u \in Activos :
          /\ t # u
          /\ pc[t] = "delete" /\ fecha[t] # 0 /\ incs[fecha[t]] = 1
          /\ pc[u] = "visit"
          /\ clave[u] = cubeta[fecha[t]]
          /\ mapa[clave[u]] = 1

(* ------------------------------- C22 ----------------------------------- *)
\* C22: en cada paso de toda ejecucion la cuenta de cada cubeta queda igual
\* o crece en exactamente 1; ninguna cuenta decrece ni se hace negativa, y
\* el conjunto de cubetas esta confinado a [0,130].
C22_ContadoresMonotonos ==
    /\ [](/\ DOMAIN Hist \subseteq 0 .. 130
          /\ \A k \in DOMAIN Hist : Hist[k] >= 0)
    /\ [][(mapa' # mapa \/ histograma' # histograma) =>
            \A a \in 0 .. 130 :
                Cuenta(a)' = Cuenta(a) \/ Cuenta(a)' = Cuenta(a) + 1]_vars

\* una task va a sumar en una cubeta del arreglo que ya tiene cuenta 1
C22_Testigo ==
    /\ estrategia = "arreglo"
    /\ \E t \in Activos :
          /\ pc[t] = "fetch_add"
          /\ histograma[clave[t]] = 1

(* ------------------------------- C23 ----------------------------------- *)
\* histograma que corresponde a la entrada con el dia de referencia d: los
\* pares <<cubeta, cuenta>> de cuenta distinta de cero.  No depende del
\* programa que se ejecuta.
HistogramaDeLaEntrada(d) ==
    {<<CubetaEsperada[archivo[i]][d],
       Cardinality({j \in 1 .. Len(archivo) :
                       CubetaEsperada[archivo[j]][d]
                           = CubetaEsperada[archivo[i]][d]})>> :
        i \in {n \in 1 .. Len(archivo) : CubetaEsperada[archivo[n]][d] # -1}}

\* pares <<cubeta, cuenta>> de cuenta distinta de cero del mapa y del arreglo
ParesDelMapa == {<<k, mapa[k]>> : k \in {j \in DOMAIN mapa : mapa[j] # 0}}
ParesDelArreglo ==
    {<<k, histograma[k]>> : k \in {j \in DOMAIN histograma :
                                      histograma[j] # 0}}

\* C23: las dos estrategias son intercambiables: con la misma entrada y la
\* misma fecha de referencia, el programa de cola y mapa y el de tasks y
\* arreglo terminan con el mismo histograma (las mismas cubetas distintas
\* de cero con las mismas cuentas), tambien con archivos vacios, archivos
\* que no se pueden abrir, lineas vacias y edades fuera de rango: cada uno
\* termina con el histograma de la entrada.
C23_EstrategiasIntercambiables ==
    \A d \in DOMAIN Calendario :
        (Done /\ FechaDeReferenciaFija(d)) =>
            /\ estrategia = "mapa" => ParesDelMapa = HistogramaDeLaEntrada(d)
            /\ estrategia = "arreglo" =>
                  ParesDelArreglo = HistogramaDeLaEntrada(d)

\* el programa del mapa termino sobre una entrada con una linea vacia y una
\* edad contable
C23_Testigo ==
    /\ Done
    /\ estrategia = "mapa"
    /\ archivo = <<L_vacia, L_1893_11_02>>
    /\ FechaDeReferenciaFija(1)
    /\ ParesDelMapa = {<<130, 1>>}

(* ------------------------------- C24 ----------------------------------- *)
\* todas las lineas de la entrada son vacias (y hay al menos una)
SoloLineasVacias ==
    /\ abrible
    /\ archivo # <<>>
    /\ \A i \in 1 .. Len(archivo) : archivo[i] = <<>>

\* C24: las lineas vacias son inertes: una linea vacia se encola, se saca y
\* se libera como cualquier otro elemento, pero nunca se pasa al calculo de
\* la edad y nunca cambia una cubeta del histograma; por eso una entrada
\* hecha solo de lineas vacias llega a Done con el histograma vacio.
C24_LineasVaciasInertes ==
    /\ [](\A i \in 1 .. Len(archivo) :
            archivo[i] = <<>> =>
              /\ dia_proc[i] = 0
              /\ incs[i] = 0
              /\ cubeta[i] = -1
              /\ (Done /\ estrategia = "mapa") =>
                    entregas[i] = 1 /\ heap[i] = "liberada"
              /\ (Done /\ estrategia = "arreglo") =>
                    Procesada(i) /\ heap[i] = "sin_crear")
    /\ [](SoloLineasVacias =>
            /\ ~abortado
            /\ SumaCuentas(Hist) = 0
            /\ Done => salida = <<>> /\ codigo = 0)
    /\ (SoloLineasVacias ~> Done)

\* el programa del mapa termino sobre dos lineas vacias, sacadas de la cola
\* y liberadas
C24_Testigo ==
    /\ Done
    /\ estrategia = "mapa"
    /\ n_hilos = 2
    /\ archivo = <<L_vacia, L_vacia>>
    /\ entregas[1] = 1 /\ entregas[2] = 1
    /\ heap[1] = "liberada" /\ heap[2] = "liberada"
    /\ salida = <<>>

====
